---- MODULE Spec2Model ----
(***************************************************************************)
(* The session registry and the QR / pairing-code request handlers of      *)
(* ban-md.js, as a state machine.  One step of the model is one run of the *)
(* JavaScript event loop's current job up to its next await: the code      *)
(* between two awaits is atomic (single-threaded cooperative scheduling).  *)
(* The connection provider (makeWASocket and the events of sock.ev), the   *)
(* credential store, the version lookup and the QR image encoder are       *)
(* external: their outcomes are nondeterministic choices.                  *)
(***************************************************************************)
EXTENDS Integers, Sequences, FiniteSets, TLC

(* ------------------------------ bounds -------------------------------- *)

\* Spec: overlapping requests; HTTP requests, connection.update events and
\* clock steps of one run
MaxReqs == 2
MaxEvents == 1
MaxTicks == 2
\* SpecWait: one request and the events of its wait
WaitReqs == 1
WaitEvents == 3
WaitTicks == 2
\* SpecTTL: requests one after the other, over more than the freshness window
TtlReqs == 2
TtlEvents == 2
TtlTicks == 2
\* SpecCreate: createSession calls only, three of them
CreateReqs == 3
\* SpecP3: the requests, connection.update events and clock steps of part_003
MaxP3Reqs == 2
MaxP3Events == 2
MaxP3Ticks == 3
\* SpecCode: the longest raw code
MaxRawLen == 9
\* SpecSv: the requests, connection.update events and clock steps of server.js
MaxSvReqs == 2
MaxSvEvents == 2
MaxSvTicks == 2
\* SpecP0: the connection.update events and clock steps of part_000
MaxP0Events == 4
MaxP0Ticks == 2
\* SpecP2: the newCode calls and clock steps of part_002
MaxP2Ticks == 3
MaxP2Reqs == 4
\* SpecPj: the socks of pair.js
MaxPjSocks == 4
MaxPjEvents == 7

(* ------------------------- program constants -------------------------- *)

\* setTimeout(..., 10_000) of GET /api/qr
QR_WAIT_MS == 10000
\* Date.now() - lastQRAt < 60_000
QR_TTL_MS == 60000
\* part_003: setTimeout(..., 2000) of GET /qr
P3_QR_WAIT_MS == 2000
\* README.md: "/qr endpoint now waits up to 30s"
README_QR_WAIT_MS == 30000
\* part_003: padEnd(8, "0").slice(0, 8)
CODE_LEN == 8
\* server.js: setTimeout(..., 10000) of GET /api/qr
SV_QR_WAIT_MS == 10000
\* part_002: const CODE_TTL_MS = 5 * 60 * 1000
CODE_TTL_MS == 5 * 60 * 1000

\* the clock advances from one timeout boundary to the next
\* the clock's step: a timeout in Spec and SpecWait, half a freshness window in
\* SpecTTL
TickMs == QR_WAIT_MS
TtlTickMs == QR_TTL_MS \div 2
\* part_003: two steps to its timeout
P3TickMs == P3_QR_WAIT_MS \div 2

\* the bounds of a specification; overlap: a request may arrive while an
\* earlier one is still being handled
SpecBounds == [reqs |-> MaxReqs, events |-> MaxEvents, ticks |-> MaxTicks, step |-> TickMs, overlap |-> TRUE]
WaitBounds == [reqs |-> WaitReqs, events |-> WaitEvents, ticks |-> WaitTicks, step |-> TickMs, overlap |-> TRUE]
TtlBounds == [reqs |-> TtlReqs, events |-> TtlEvents, ticks |-> TtlTicks, step |-> TtlTickMs, overlap |-> FALSE]
CreateBounds == [reqs |-> CreateReqs, events |-> 0, ticks |-> 0, step |-> TickMs, overlap |-> TRUE]

(* ------------------------------ values -------------------------------- *)

None == "none"
Ids == {"s1", "s2"}
QRs == {"Q1", "Q2"}
Users == {"u1"}
\* request slots: enough for every specification
Larger(a, b) == IF a > b THEN a ELSE b
Reqs == 1..Larger(Larger(MaxReqs, CreateReqs), Larger(WaitReqs, TtlReqs))
\* one connection handle per makeWASocket call; a request makes at most one
Socks == Reqs
Digit == {"0", "1", "2", "3", "4", "5", "6", "7", "8", "9"}
\* the :phone route parameter, as its characters
Phones == { <<"+", "2", "5">>, <<"a", "-">> }
\* what sock.requestPairingCode may resolve to
RawCodes == { <<"1", "2", "3">>, <<"A", "B", "C", "D", "1", "2", "3", "4">> }
\* e.message of what sock.requestPairingCode may reject with ("": the error
\* has no message)
ErrMessages == {"", "rate-overlimit"}
\* What a connection.update event may carry.  The provider emits partial
\* updates: a QR, a connection value, or neither (isNewLogin, isOnline, ...).
Updates ==
  [qr : QRs, connection : {None}]
    \cup [qr : {None}, connection : {None, "connecting", "open", "close"}]

VARIABLES
  now,       \* Date.now(), in ms
  sessions,  \* the Map sessions: id -> session object (0: no entry)
  nsock,     \* makeWASocket calls so far; session object c owns sock c
  sobj,      \* the session objects s = {sock, lastQR, lastQRAt, user, connection}
  sockId,    \* the id whose createSession made sock c
  sockUser,  \* sock.user of sock c
  nev,       \* connection.update events emitted so far
  once,      \* sock.ev.once("connection.update", handler): the requests listening
  req,       \* per request: the handler's locals and position
  out,       \* per request: the res.json calls, in order
  gq,        \* history: the last QR event each sock emitted
  gh,        \* history per request, read by the properties only
  gconn,     \* history: the last connection value each sock emitted
  glast      \* history: the sock that emitted the latest connection.update

\* GET /api/me of ban-md.js
VARIABLES
  me         \* the last GET /api/me: the id asked for and the res.json reply

\* part_003
VARIABLES
  p3sessions,  \* the object sessions: id -> { sock } (0: no property)
  p3nsock,     \* makeWASocket calls so far
  p3on,        \* sock.ev.on("connection.update", ...): the requests listening
  p3req,       \* per request: the handler's locals and position
  p3out,       \* per request: the res.json calls, in order
  p3gh,        \* history per request, read by the properties only
  p3nev,       \* connection.update events emitted so far
  p3pairing,   \* typeof sock.requestPairingCode === "function", of the Baileys build
  rawIn,       \* a raw code, as requestPairingCode resolved to it
  code8        \* the code /pair makes of rawIn

\* server.js
VARIABLES
  svsessions,  \* the Map sessions: sessionId -> sock (0: no entry)
  svnsock,     \* makeWASocket calls so far
  svsock,      \* per sock: the sessionId of its createSession, and whether it closed
  svon,        \* sock.ev.on("connection.update", handler): the requests listening
  svreq,       \* per request: the handler's locals and position
  svout,       \* per request: the res.json calls, in order
  svnev,       \* connection.update events emitted so far
  svgh         \* history per request, read by the properties only

\* part_000: one session and its sock
VARIABLES
  p0S,         \* S = { sock, lastQR, lastQRAt, sentSessionMsg } (sock: 0 before createSession)
  p0user,      \* sock.user
  p0sending,   \* sock.sendMessage calls that have not settled
  p0sends,     \* sock.sendMessage calls so far
  p0nev        \* connection.update events emitted so far

\* part_002
VARIABLES
  store,       \* the Map store: code -> { createdAt, expiresAt }
  p2last,      \* what the last request that validates a code was answered
  p2n,         \* requests so far
  p2ticks,     \* clock steps so far
  p2gh         \* history: per code when newCode issued it last and when isValid
               \* first found it expired since (-1: never); the issue time the
               \* last validation met

\* pair.js of README.md
VARIABLES
  sock,        \* the global sock (0: undefined)
  pjnsock,     \* makeWASocket calls so far
  pjstarting,  \* startSock calls suspended at await useMultiFileAuthState
  pjfailed,    \* startSock calls that rejected
  pjclosed,    \* per sock: how it closed ("no": it has not)
  pjconn,      \* per sock: the connection value of its last update
  pjnev        \* connection.update events emitted so far

svvars == <<svsessions, svnsock, svsock, svon, svreq, svout, svnev, svgh>>

p0vars == <<p0S, p0user, p0sending, p0sends, p0nev>>

p2vars == <<store, p2last, p2n, p2ticks, p2gh>>

pjvars == <<sock, pjnsock, pjstarting, pjfailed, pjclosed, pjconn, pjnev>>

banvars == <<now, sessions, nsock, sobj, sockId, sockUser, nev, once, req, out, gq, gh, gconn, glast>>

p3vars == <<p3sessions, p3nsock, p3on, p3req, p3out, p3gh, p3nev, p3pairing, rawIn, code8>>

\* what the handlers of part_003 leave alone
p3others == <<sessions, nsock, sobj, sockId, sockUser, nev, once, req, out, gq, gh, gconn,
              glast, me, p3pairing, rawIn, code8, svvars, p0vars, p2vars, pjvars>>

\* what the handlers of ban-md.js other than GET /api/me leave alone
others == <<me, p3vars, svvars, p0vars, p2vars, pjvars>>

\* ban-md.js and part_003 without the clock
older == <<sessions, nsock, sobj, sockId, sockUser, nev, once, req, out, gq, gh, gconn,
           glast, me, p3vars>>

\* what the handlers of server.js, part_000, part_002 and pair.js leave alone
svothers == <<older, p0vars, p2vars, pjvars>>
p0others == <<older, svvars, p2vars, pjvars>>
p2others == <<older, svvars, p0vars, pjvars>>
pjothers == <<now, older, svvars, p0vars, p2vars>>

vars == <<banvars, me, p3vars, svvars, p0vars, p2vars, pjvars>>

(* ------------------------- pure functions ------------------------------ *)

\* (phone + "").replace(/\D/g, "")
Clean(phone) == SelectSeq(phone, LAMBDA ch : ch \in Digit)

\* qrcode.toDataURL(text): a data URL carrying the payload
ToDataURL(qr) == <<"data:image/png;base64", qr>>

\* s = { sock, lastQR: null, lastQRAt: 0, user: null, connection: "init" }
NewSession == [lastQR |-> None, lastQRAt |-> 0, user |-> None, connection |-> "init"]

NoTimer == -1

IdleReq == [kind |-> None, wanted |-> None, id |-> None, phone |-> <<>>, pc |-> "idle",
            sock |-> 0, arg |-> None, responded |-> FALSE, timer |-> NoTimer]

NoEvent == [kind |-> None, qr |-> None, at |-> 0]

IdleGh == [ident |-> None, entry |-> 0, did |-> {}, hAt |-> 0, hUser |-> None,
           hq |-> NoEvent, first |-> NoEvent, other |-> FALSE, fired |-> FALSE,
           deadline |-> NoTimer, thrown |-> None, before |-> {},
           hConn |-> None]

Reply(type, val, id) == [type |-> type, val |-> val, sessionId |-> id, at |-> now]

\* what GET /api/me answered; none: no such request yet
NoMe == [id |-> None, type |-> None, user |-> None, connection |-> None]

(* ------------------------- part_003: values ---------------------------- *)

P3Reqs == 1..MaxP3Reqs
P3Socks == P3Reqs
\* req.query.session (None: the parameter is absent)
P3Queries == {None, "s2"}
\* req.query.phone (None: absent or empty)
P3Phones == {None, "+256"}
\* the characters of a raw code
RawChars == {"1", "2", "A"}
RECURSIVE SeqsUpTo(_, _)
SeqsUpTo(S, n) ==
  IF n = 0 THEN {<<>>}
  ELSE LET shorter == SeqsUpTo(S, n - 1)
       IN shorter \cup {Append(q, ch) : q \in {x \in shorter : Len(x) = n - 1}, ch \in S}
\* every raw code up to the longest
AllRaw == SeqsUpTo(RawChars, MaxRawLen)

P3IdleReq == [kind |-> None, id |-> None, phone |-> None, pc |-> "idle", sock |-> 0,
              qrData |-> None, timer |-> NoTimer]

P3IdleGh == [arrived |-> NoTimer, listenAt |-> NoTimer, first |-> NoEvent]

P3Init ==
  /\ p3sessions = [i \in {"ban-session1", "s2"} |-> 0]
  /\ p3nsock = 0
  /\ p3on = [c \in P3Socks |-> {}]
  /\ p3req = [r \in P3Reqs |-> P3IdleReq]
  /\ p3out = [r \in P3Reqs |-> <<>>]
  /\ p3gh = [r \in P3Reqs |-> P3IdleGh]
  /\ p3nev = 0
  /\ code8 = <<>>

(* ------------------------- server.js: values --------------------------- *)

SvReqs == 1..MaxSvReqs
SvSocks == SvReqs
\* req.params.sessionId
SvIds == {"s1", "s2"}

SvIdleReq == [id |-> None, pc |-> "idle", sock |-> 0, responded |-> FALSE, arg |-> None,
              timer |-> NoTimer]

SvIdleGh == [entry |-> 0, closedAtArrival |-> {}, made |-> FALSE]

SvInit ==
  /\ svsessions = [i \in SvIds |-> 0]
  /\ svnsock = 0
  /\ svsock = [c \in SvSocks |-> [id |-> None, closed |-> FALSE]]
  /\ svon = [c \in SvSocks |-> {}]
  /\ svreq = [r \in SvReqs |-> SvIdleReq]
  /\ svout = [r \in SvReqs |-> <<>>]
  /\ svnev = 0
  /\ svgh = [r \in SvReqs |-> SvIdleGh]

(* ------------------------- part_000: values ---------------------------- *)

P0Init ==
  /\ p0S = [sock |-> 0, lastQR |-> None, lastQRAt |-> 0, sentSessionMsg |-> FALSE]
  /\ p0user = None
  /\ p0sending = 0
  /\ p0sends = 0
  /\ p0nev = 0

(* ------------------------- part_002: values ---------------------------- *)

\* what nanoid() may return
Codes == {"ABCD2345", "WXYZ6789"}

\* the code of a request: one nanoid() may return, or one it never returns
\* (0 and 1 are not in its alphabet)
P2Queries == Codes \cup {"01010101"}

\* store.get(code) of a code that has no record
NoRec == [createdAt |-> NoTimer, expiresAt |-> NoTimer]

NoCheck == [route |-> None, code |-> None, valid |-> FALSE, status |-> 0,
            at |-> NoTimer, n |-> 0]

P2Init ==
  /\ store = [c \in P2Queries |-> NoRec]
  /\ p2last = NoCheck
  /\ p2n = 0
  /\ p2ticks = 0
  /\ p2gh = [issue |-> [c \in P2Queries |-> NoTimer],
             expAt |-> [c \in P2Queries |-> NoTimer],
             met   |-> NoTimer]

(* -------------------------- pair.js: values ---------------------------- *)

PjSocks == 1..MaxPjSocks

\* update.connection of a connection.update (None: the update has none)
PjConns == {None, "connecting", "open", "close"}

\* lastDisconnect?.error?.output?.statusCode of a close (None: undefined)
PjCodes == {None, "connectionLost", "loggedOut"}

\* let sock; the module's startSock() call has not run yet
PjInit ==
  /\ sock = 0
  /\ pjnsock = 0
  /\ pjstarting = 0
  /\ pjfailed = 0
  /\ pjclosed = [c \in PjSocks |-> "no"]
  /\ pjconn = [c \in PjSocks |-> None]
  /\ pjnev = 0

\* the other programs, as they start
RestInit == SvInit /\ P0Init /\ P2Init /\ PjInit

BanInit ==
  /\ now = 0
  /\ sessions = [i \in Ids |-> 0]
  /\ nsock = 0
  /\ sobj = [c \in Socks |-> NewSession]
  /\ sockId = [c \in Socks |-> None]
  /\ sockUser = [c \in Socks |-> None]
  /\ nev = 0
  /\ once = [c \in Socks |-> {}]
  /\ req = [r \in Reqs |-> IdleReq]
  /\ out = [r \in Reqs |-> <<>>]
  /\ gq = [c \in Socks |-> NoEvent]
  /\ gh = [r \in Reqs |-> IdleGh]
  /\ gconn = [c \in Socks |-> None]
  /\ glast = 0
  /\ me = NoMe

Init == BanInit /\ P3Init /\ RestInit /\ p3pairing = TRUE /\ rawIn = <<>>

\* part_003 on a Baileys build with or without requestPairingCode
InitP3 == BanInit /\ P3Init /\ RestInit /\ p3pairing \in BOOLEAN /\ rawIn = <<>>

\* the raw code is any of AllRaw
InitCode == BanInit /\ P3Init /\ RestInit /\ p3pairing = TRUE /\ rawIn \in AllRaw

(* --------------------------- createSession ----------------------------- *)

\* HasSession taking a session whose connection closed for missing
HasSessionLive(id) == sessions[id] # 0 /\ sobj[sessions[id]].connection # "close"

\* if (s && s.sock) return { id, ...s }   (every stored s has its sock)
HasSession(id) == sessions[id] # 0

\* the request as createSession's caller built it
Arrive(kind, wanted, id, phone) ==
  [IdleReq EXCEPT !.kind = kind, !.wanted = wanted, !.id = id, !.phone = phone]

\* history taken when a handler is entered
ArriveGh(id) ==
  [IdleGh EXCEPT !.entry = sessions[id],
                 !.before = {q \in Reqs : req[q].id = id /\ req[q].sock # 0},
                 !.hConn = IF sessions[id] # 0 THEN sobj[sessions[id]].connection ELSE None,
                 !.ident = IF sessions[id] # 0 THEN sobj[sessions[id]].user ELSE None]

(* ------------------------- GET /api/qr body ---------------------------- *)

\* LoggedIn without the sock.user check
LoggedInNever(user) == FALSE

\* if (sock.user) return res.json({ message: "Already logged in", ... })
LoggedIn(user) == user # None

\* Fresh with <= in place of <
FreshInclusive(lastQR, lastQRAt) == lastQR # None /\ now - lastQRAt <= QR_TTL_MS

\* lastQR && Date.now() - lastQRAt < 60_000
Fresh(lastQR, lastQRAt) == lastQR # None /\ now - lastQRAt < QR_TTL_MS

\* setTimeout(..., 10_000)
QrDeadline == now + QR_WAIT_MS

\* The handler after `await createSession(wantedId)`: rq is the request, c the
\* sock, user = sock.user, lastQR/lastQRAt the copies createSession returned.
\* Gives the request's next locals, its reply (if any) and whether it listens.
QRBody(rq, c, user, lastQR, lastQRAt) ==
  IF LoggedIn(user)
    THEN [req |-> [rq EXCEPT !.sock = c, !.pc = "done"],
          reply |-> <<Reply("already", user, rq.id)>>, listen |-> FALSE]
  ELSE IF Fresh(lastQR, lastQRAt)
    THEN [req |-> [rq EXCEPT !.sock = c, !.pc = "encCached", !.arg = lastQR],
          reply |-> <<>>, listen |-> FALSE]
  ELSE [req |-> [rq EXCEPT !.sock = c, !.pc = "waiting", !.responded = FALSE,
                           !.timer = QrDeadline],
        reply |-> <<>>, listen |-> TRUE]

(* ------------------------ GET /api/pair body --------------------------- *)

\* PhoneOk without the validation
PhoneOkAny(clean) == TRUE

\* if (!clean) return res.json({ error: "Valid phone required ..." })
PhoneOk(clean) == clean # <<>>

\* The handler after `await createSession(sessionId)`.
PairBody(rq, c, user) ==
  IF LoggedIn(user)
    THEN [req |-> [rq EXCEPT !.sock = c, !.pc = "done"],
          reply |-> <<Reply("already", user, rq.id)>>, listen |-> FALSE]
  ELSE [req |-> [rq EXCEPT !.sock = c, !.pc = "pairing", !.arg = Clean(rq.phone)],
        reply |-> <<>>, listen |-> FALSE]

Body(rq, c, user, lastQR, lastQRAt) ==
  IF rq.kind = "qr" THEN QRBody(rq, c, user, lastQR, lastQRAt) ELSE PairBody(rq, c, user)

\* what the body did, for the history
BodyDid(b) ==
  (IF b.listen THEN {"listener", "timer"} ELSE {})
    \cup (IF b.req.pc = "pairing" THEN {"pairCall"} ELSE {})

EnterGh(g, b, c, user) ==
  [g EXCEPT !.did = @ \cup BodyDid(b), !.hAt = now, !.hUser = user, !.hq = gq[c],
            !.deadline = IF b.listen THEN now + QR_WAIT_MS ELSE NoTimer]

\* createSession finds the session, or suspends at its first await
Enter(r, rq) ==
  IF HasSession(rq.id)
    THEN LET c == sessions[rq.id]
             b == Body(rq, c, sockUser[c], sobj[c].lastQR, sobj[c].lastQRAt)
         IN /\ req' = [req EXCEPT ![r] = b.req]
            /\ out' = [out EXCEPT ![r] = @ \o b.reply]
            /\ once' = IF b.listen THEN [once EXCEPT ![c] = @ \cup {r}] ELSE once
            /\ gh' = [gh EXCEPT ![r] = EnterGh(ArriveGh(rq.id), b, c, sockUser[c])]
    ELSE /\ req' = [req EXCEPT ![r] = [rq EXCEPT !.pc = "authState"]]
         /\ gh' = [gh EXCEPT ![r] = ArriveGh(rq.id)]
         /\ UNCHANGED <<out, once>>

\* requests are numbered in their order of arrival
\* and the first one names "s1" (the ids are interchangeable)
CanStart(r, id, b) ==
  /\ r <= b.reqs
  /\ req[r].pc = "idle"
  /\ IF r = 1 THEN id = "s1"
     ELSE /\ req[r - 1].pc # "idle"
          /\ b.overlap \/ req[r - 1].pc \in {"done", "threw"}

\* GET /api/qr/:sessionId?   (wanted = None: the id is omitted or "new", and
\* createSession draws randomId())
StartQR(r, wanted, rnd, b) ==
  /\ CanStart(r, rnd, b)
  /\ wanted = None \/ rnd = wanted
  /\ Enter(r, Arrive("qr", wanted, rnd, <<>>))
  /\ UNCHANGED <<now, sessions, nsock, sobj, sockId, sockUser, nev, gq, gconn, glast, others>>

\* GET /api/pair/:sessionId/:phone
StartPair(r, id, phone, b) ==
  /\ CanStart(r, id, b)
  /\ IF PhoneOk(Clean(phone))
       THEN Enter(r, Arrive("pair", id, id, phone))
       ELSE /\ req' = [req EXCEPT ![r] = [Arrive("pair", id, id, phone) EXCEPT !.pc = "done"]]
            /\ out' = [out EXCEPT ![r] = <<Reply("badphone", None, None)>>]
            /\ gh' = [gh EXCEPT ![r] = ArriveGh(id)]
            /\ UNCHANGED once
  /\ UNCHANGED <<now, sessions, nsock, sobj, sockId, sockUser, nev, gq, gconn, glast, others>>

\* await useMultiFileAuthState(`sessions/${id}`) resolves
AuthStateDone(r) ==
  /\ req[r].pc = "authState"
  /\ req' = [req EXCEPT ![r].pc = "version"]
  /\ UNCHANGED <<now, sessions, nsock, sobj, sockId, sockUser, nev, once, out, gq, gh, gconn, glast, others>>

\* CreateThrow with sessions.set(id, s) moved before the step that throws
CreateThrowStored(r) ==
  /\ req[r].pc \in {"authState", "version"}
  /\ req' = [req EXCEPT ![r].pc = "threw"]
  /\ nsock' = nsock + 1
  /\ sessions' = [sessions EXCEPT ![req[r].id] = nsock + 1]
  /\ sockId' = [sockId EXCEPT ![nsock + 1] = req[r].id]
  /\ UNCHANGED <<now, sobj, sockUser, nev, once, out, gq, gh, gconn, glast, others>>

\* useMultiFileAuthState, fetchLatestBaileysVersion or makeWASocket throws:
\* createSession rejects, and so does the route handler awaiting it
CreateThrow(r) ==
  /\ req[r].pc \in {"authState", "version"}
  /\ req' = [req EXCEPT ![r].pc = "threw"]
  /\ UNCHANGED <<now, sessions, nsock, sobj, sockId, sockUser, nev, once, out, gq, gh, gconn, glast, others>>

\* await fetchLatestBaileysVersion() resolves: makeWASocket, sessions.set, the
\* listeners, return; then the route handler's body, in the same job.
\* restored: sock.user as the stored credentials give it.
VersionDone(r, restored) ==
  /\ req[r].pc = "version"
  /\ LET c == nsock + 1
         b == Body(req[r], c, restored, NewSession.lastQR, NewSession.lastQRAt)
     IN /\ nsock' = c
        /\ sessions' = [sessions EXCEPT ![req[r].id] = c]
        /\ sobj' = [sobj EXCEPT ![c] = NewSession]
        /\ sockId' = [sockId EXCEPT ![c] = req[r].id]
        /\ sockUser' = [sockUser EXCEPT ![c] = restored]
        /\ req' = [req EXCEPT ![r] = b.req]
        /\ out' = [out EXCEPT ![r] = @ \o b.reply]
        /\ once' = IF b.listen THEN [once EXCEPT ![c] = @ \cup {r}] ELSE once
        /\ gh' = [gh EXCEPT ![r] =
                    EnterGh([gh[r] EXCEPT !.did = @ \cup {"makeSocket"}], b, c, restored)]
  /\ UNCHANGED <<now, nev, gq, gconn, glast, others>>

(* ----------------------- connection.update events ---------------------- *)

\* SessionOn keeping the first QR it was given
SessionOnFirstQR(s, u, user) ==
  [lastQR     |-> IF u.qr # None /\ s.lastQR = None THEN u.qr ELSE s.lastQR,
   lastQRAt   |-> IF u.qr # None /\ s.lastQR = None THEN now ELSE s.lastQRAt,
   connection |-> IF u.connection # None THEN u.connection ELSE s.connection,
   user       |-> IF user # None THEN user ELSE s.user]

\* The listener createSession registered with sock.ev.on: s after the update.
\* user is sock.user when the event is delivered.
SessionOn(s, u, user) ==
  [lastQR     |-> IF u.qr # None THEN u.qr ELSE s.lastQR,
   lastQRAt   |-> IF u.qr # None THEN now ELSE s.lastQRAt,
   connection |-> IF u.connection # None THEN u.connection ELSE s.connection,
   user       |-> IF user # None THEN user ELSE s.user]

\* The branch the request's handler takes on an update:
\*   if (update.qr && !responded) ... if (update.connection === "open" && !responded) ...
\* (after the first branch has set responded, the second is not taken)
HandlerBranch(u, responded) ==
  IF u.qr # None /\ ~responded THEN "qr"
  ELSE IF u.connection = "open" /\ ~responded THEN "open"
  ELSE "skip"

\* HandlerReq setting responded whatever the update carries
HandlerReqLatching(rq, u) ==
  CASE HandlerBranch(u, rq.responded) = "qr" ->
         [rq EXCEPT !.responded = TRUE, !.pc = "encEvent", !.arg = u.qr]
    [] OTHER -> [rq EXCEPT !.responded = TRUE, !.pc = "done"]

\* The request's handler, run by the event up to its await or its end
HandlerReq(rq, u) ==
  CASE HandlerBranch(u, rq.responded) = "qr" ->
         [rq EXCEPT !.responded = TRUE, !.pc = "encEvent", !.arg = u.qr]
    [] HandlerBranch(u, rq.responded) = "open" ->
         [rq EXCEPT !.responded = TRUE, !.pc = "done"]
    [] OTHER -> [rq EXCEPT !.pc = "done"]

HandlerReply(rq, u, user) ==
  IF HandlerBranch(u, rq.responded) = "open"
    THEN <<Reply("already", user, rq.id)>>
    ELSE <<>>

\* Called with one emitter shared by every sock
CalledAny(c) == UNION {once[d] : d \in Socks}

\* Called with the emit consumed by the listener registered first
CalledFirst(c) ==
  IF once[c] = {} THEN {} ELSE {CHOOSE r \in once[c] : \A q \in once[c] : r <= q}

\* sock.ev.once: the listeners an emit of connection.update removes and calls
Called(c) == once[c]

\* a request that registered its timer, has not seen it fire and has seen
\* neither a QR nor an open event yet
Expecting(r, c) ==
  /\ req[r].sock = c
  /\ "timer" \in gh[r].did
  /\ ~gh[r].fired
  /\ gh[r].first.kind = None

SeenGh(g, u) ==
  IF u.qr # None THEN [g EXCEPT !.first = [kind |-> "qr", qr |-> u.qr, at |-> now]]
  ELSE IF u.connection = "open"
    THEN [g EXCEPT !.first = [kind |-> "open", qr |-> None, at |-> now]]
  ELSE [g EXCEPT !.other = TRUE]

\* The provider emits connection.update on sock c.  login: the provider has set
\* sock.user (the account paired) before it emits; "open" is emitted only for a
\* sock that has its user.
Emit(c, u, login, b) ==
  /\ c \in 1..nsock
  /\ nev < b.events
  /\ nev' = nev + 1
  /\ login => sockUser[c] = None /\ u.qr = None
  /\ LET user == IF login THEN CHOOSE x \in Users : TRUE ELSE sockUser[c]
     IN /\ u.connection = "open" => user # None
        /\ sockUser' = [sockUser EXCEPT ![c] = user]
        /\ sobj' = [sobj EXCEPT ![c] = SessionOn(@, u, user)]
        /\ req' = [r \in Reqs |-> IF r \in Called(c) THEN HandlerReq(req[r], u) ELSE req[r]]
        /\ out' = [r \in Reqs |->
                     IF r \in Called(c) THEN out[r] \o HandlerReply(req[r], u, user)
                     ELSE out[r]]
        /\ once' = [once EXCEPT ![c] = @ \ Called(c)]
        /\ gq' = IF u.qr # None
                   THEN [gq EXCEPT ![c] = [kind |-> "qr", qr |-> u.qr, at |-> now]]
                   ELSE gq
        /\ gh' = [r \in Reqs |-> IF Expecting(r, c) THEN SeenGh(gh[r], u) ELSE gh[r]]
        /\ gconn' = IF u.connection # None THEN [gconn EXCEPT ![c] = u.connection] ELSE gconn
        /\ glast' = c
  /\ UNCHANGED <<now, sessions, nsock, sockId, others>>

(* ----------------------------- the awaits ------------------------------ *)

\* await qrcode.toDataURL(...) resolves: res.json({ qr: qrImage, sessionId: id })
EncodeDone(r) ==
  /\ req[r].pc \in {"encCached", "encEvent"}
  /\ req' = [req EXCEPT ![r].pc = "done"]
  /\ out' = [out EXCEPT ![r] = Append(@, Reply("qr", ToDataURL(req[r].arg), req[r].id))]
  /\ UNCHANGED <<now, sessions, nsock, sobj, sockId, sockUser, nev, once, gq, gh, gconn, glast, others>>

\* await qrcode.toDataURL(...) rejects: nothing catches it
EncodeThrow(r) ==
  /\ req[r].pc \in {"encCached", "encEvent"}
  /\ req' = [req EXCEPT ![r].pc = "threw"]
  /\ UNCHANGED <<now, sessions, nsock, sobj, sockId, sockUser, nev, once, out, gq, gh, gconn, glast, others>>

\* await sock.requestPairingCode(clean) resolves: res.json({ code, sessionId: id })
PairDone(r, code) ==
  /\ req[r].pc = "pairing"
  /\ req' = [req EXCEPT ![r].pc = "done"]
  /\ out' = [out EXCEPT ![r] = Append(@, Reply("code", code, req[r].id))]
  /\ UNCHANGED <<now, sessions, nsock, sobj, sockId, sockUser, nev, once, gq, gh, gconn, glast, others>>

\* CatchReply with the fixed text whatever the error says
CatchReplyGeneric(rq, msg) == Reply("pairerr", "Failed to generate code", rq.id)

\* catch (e) { return res.json({ error: e.message || "Failed to generate code", sessionId: id }) }
CatchReply(rq, msg) ==
  Reply("pairerr", IF msg # "" THEN msg ELSE "Failed to generate code", rq.id)

\* await sock.requestPairingCode(clean) rejects with an error whose message is msg
PairThrow(r, msg) ==
  /\ req[r].pc = "pairing"
  /\ req' = [req EXCEPT ![r].pc = "done"]
  /\ out' = [out EXCEPT ![r] = Append(@, CatchReply(req[r], msg))]
  /\ gh' = [gh EXCEPT ![r].thrown = msg]
  /\ UNCHANGED <<now, sessions, nsock, sobj, sockId, sockUser, nev, once, gq, gconn, glast, others>>

(* ------------------------------ the clock ------------------------------ *)

\* setTimeout's callback:
\*   if (!responded) res.json({ error: "QR not available yet. Tap again.", sessionId: id })
TimerReply(rq) ==
  IF ~rq.responded THEN <<Reply("timeout", None, rq.id)>> ELSE <<>>

TimerReq(rq) == [rq EXCEPT !.timer = NoTimer]

TimerFire(r) ==
  /\ req[r].timer # NoTimer
  /\ now >= req[r].timer
  /\ out' = [out EXCEPT ![r] = @ \o TimerReply(req[r])]
  /\ req' = [req EXCEPT ![r] = TimerReq(@)]
  /\ gh' = [gh EXCEPT ![r].fired = TRUE]
  /\ UNCHANGED <<now, sessions, nsock, sobj, sockId, sockUser, nev, once, gq, gconn, glast, others>>

\* the deadlines of the timers that have not run
Pending == {req[r].timer : r \in Reqs} \ {NoTimer}

Earliest(S) == CHOOSE d \in S : \A e \in S : d <= e

\* Time passes, by the step or up to the next deadline if that comes first; a
\* timer that is due runs before the clock moves on
Tick(b) ==
  /\ now < b.ticks * b.step
  /\ \A d \in Pending : d > now
  /\ now' = IF \E d \in Pending : d < now + b.step THEN Earliest(Pending) ELSE now + b.step
  /\ UNCHANGED <<sessions, nsock, sobj, sockId, sockUser, nev, once, req, out, gq, gh, gconn, glast, others>>

Next(b) ==
  \/ \E r \in Reqs, w \in Ids \cup {None}, rnd \in Ids : StartQR(r, w, rnd, b)
  \/ \E r \in Reqs, id \in Ids, ph \in Phones : StartPair(r, id, ph, b)
  \/ \E r \in Reqs : AuthStateDone(r)
  \/ \E r \in Reqs : CreateThrow(r)
  \/ \E r \in Reqs, u \in Users \cup {None} : VersionDone(r, u)
  \/ \E c \in Socks, u \in Updates, login \in BOOLEAN : Emit(c, u, login, b)
  \/ \E r \in Reqs : EncodeDone(r)
  \/ \E r \in Reqs : EncodeThrow(r)
  \/ \E r \in Reqs, code \in RawCodes : PairDone(r, code)
  \/ \E r \in Reqs, msg \in ErrMessages : PairThrow(r, msg)
  \/ \E r \in Reqs : TimerFire(r)
  \/ Tick(b)

\* the requests and their createSession calls alone: the provider emits
\* nothing and no await of a route handler settles
NextCreate(b) ==
  \/ \E r \in Reqs, w \in Ids \cup {None}, rnd \in Ids : StartQR(r, w, rnd, b)
  \/ \E r \in Reqs, id \in Ids, ph \in Phones : StartPair(r, id, ph, b)
  \/ \E r \in Reqs : AuthStateDone(r)
  \/ \E r \in Reqs : CreateThrow(r)
  \/ \E r \in Reqs, u \in Users \cup {None} : VersionDone(r, u)

(* ----------------------------- GET /api/me ----------------------------- *)

\* MeReply answering Unknown session for a session whose connection closed
MeReplyLiveOnly(entry, s) ==
  IF entry = 0 \/ s.connection = "close"
    THEN [type |-> "unknown", user |-> None, connection |-> None]
    ELSE [type |-> "me", user |-> s.user, connection |-> s.connection]

\* if (!s) return res.json({ error: "Unknown session" });
\* res.json({ user: s.user || null, connection: s.connection })
\* entry: what sessions.get(sessionId) found (0: undefined), s: the object
MeReply(entry, s) ==
  IF entry = 0
    THEN [type |-> "unknown", user |-> None, connection |-> None]
    ELSE [type |-> "me", user |-> s.user, connection |-> s.connection]

\* GET /api/me/:sessionId: one synchronous job
Me(id) ==
  /\ LET entry == sessions[id]
         reply == MeReply(entry, IF entry # 0 THEN sobj[entry] ELSE NewSession)
     IN me' = [id |-> id, type |-> reply.type, user |-> reply.user,
               connection |-> reply.connection]
  /\ UNCHANGED <<banvars, p3vars, svvars, p0vars, p2vars, pjvars>>

NextMe(b) ==
  \/ Next(b)
  \/ \E id \in Ids : Me(id)

(* ------------------------ part_003: pure functions --------------------- *)

\* raw.replace(/\D/g, "")
P3Digits(raw) == SelectSeq(raw, LAMBDA ch : ch \in Digit)

\* String.prototype.padEnd(n, ch), ch one character
PadEnd(str, n, ch) ==
  IF Len(str) >= n THEN str ELSE str \o [i \in 1..(n - Len(str)) |-> ch]

\* String.prototype.padStart(n, ch), ch one character
PadStart(str, n, ch) ==
  IF Len(str) >= n THEN str ELSE [i \in 1..(n - Len(str)) |-> ch] \o str

\* String.prototype.slice(0, n), n >= 0
Slice0(str, n) == SubSeq(str, 1, IF Len(str) < n THEN Len(str) ELSE n)

\* Code8 padding at the front
Code8PadStart(raw) == Slice0(PadStart(P3Digits(raw), CODE_LEN, "0"), CODE_LEN)

\* const code8 = raw.replace(/\D/g, "").padEnd(8, "0").slice(0, 8)
Code8(raw) == Slice0(PadEnd(P3Digits(raw), CODE_LEN, "0"), CODE_LEN)

\* /pair makes its code of the raw code
Normalize ==
  /\ code8 = <<>>
  /\ code8' = Code8(rawIn)
  /\ UNCHANGED <<banvars, me, svvars, p0vars, p2vars, pjvars,
                 p3sessions, p3nsock, p3on, p3req, p3out, p3gh, p3nev,
                 p3pairing, rawIn>>

NextCode == Normalize

(* ------------------------ part_003: the handlers ----------------------- *)

\* const sessionId = req.query.session || "ban-session1"
SessionParam(q) == IF q = None THEN "ban-session1" ELSE q

P3Reply(type, val) == [type |-> type, val |-> val, at |-> now]

\* GET /qr after `await createSession(sessionId)`: the listener and the timer
P3QRBody(rq, c) == [rq EXCEPT !.sock = c, !.pc = "waiting", !.timer = now + P3_QR_WAIT_MS]

\* GET /pair after `await createSession(sessionId)`
P3PairBody(rq, c) ==
  IF p3pairing
    THEN [req |-> [rq EXCEPT !.sock = c, !.pc = "pairing"], reply |-> <<>>]
    ELSE [req |-> [rq EXCEPT !.sock = c, !.pc = "done"],
          reply |-> <<P3Reply("unsupported", None)>>]

\* the route handler once createSession has returned the session of sock c
P3Body(r, rq, c) ==
  IF rq.kind = "qr"
    THEN /\ p3req' = [p3req EXCEPT ![r] = P3QRBody(rq, c)]
         /\ p3on' = [p3on EXCEPT ![c] = @ \cup {r}]
         /\ p3gh' = [p3gh EXCEPT ![r].listenAt = now,
                                 ![r].arrived = IF @ = NoTimer THEN now ELSE @]
         /\ UNCHANGED p3out
    ELSE /\ p3req' = [p3req EXCEPT ![r] = P3PairBody(rq, c).req]
         /\ p3out' = [p3out EXCEPT ![r] = @ \o P3PairBody(rq, c).reply]
         /\ p3gh' = [p3gh EXCEPT ![r].arrived = IF @ = NoTimer THEN now ELSE @]
         /\ UNCHANGED p3on

\* if (sessions[sessionId]) return sessions[sessionId]; else the first await
P3Enter(r, rq) ==
  IF p3sessions[rq.id] # 0
    THEN P3Body(r, rq, p3sessions[rq.id])
    ELSE /\ p3req' = [p3req EXCEPT ![r] = [rq EXCEPT !.pc = "authState"]]
         /\ p3gh' = [p3gh EXCEPT ![r].arrived = now]
         /\ UNCHANGED <<p3on, p3out>>

\* requests are numbered in their order of arrival
P3CanStart(r) ==
  /\ p3req[r].pc = "idle"
  /\ IF r = 1 THEN TRUE ELSE p3req[r - 1].pc # "idle"

\* GET /qr?session=q
P3StartQR(r, q) ==
  /\ P3CanStart(r)
  /\ P3Enter(r, [P3IdleReq EXCEPT !.kind = "qr", !.id = SessionParam(q)])
  /\ UNCHANGED <<now, p3sessions, p3nsock, p3nev, p3others>>

\* GET /pair?session=q&phone=phone
P3StartPair(r, q, phone) ==
  /\ P3CanStart(r)
  /\ IF phone = None
       THEN /\ p3req' = [p3req EXCEPT ![r] =
                           [P3IdleReq EXCEPT !.kind = "pair", !.id = SessionParam(q),
                                             !.pc = "done"]]
            /\ p3out' = [p3out EXCEPT ![r] = <<P3Reply("nophone", None)>>]
            /\ p3gh' = [p3gh EXCEPT ![r].arrived = now]
            /\ UNCHANGED p3on
       ELSE P3Enter(r, [P3IdleReq EXCEPT !.kind = "pair", !.id = SessionParam(q),
                                         !.phone = phone])
  /\ UNCHANGED <<now, p3sessions, p3nsock, p3nev, p3others>>

\* await useMultiFileAuthState(`./sessions/${sessionId}`) resolves
P3AuthStateDone(r) ==
  /\ p3req[r].pc = "authState"
  /\ p3req' = [p3req EXCEPT ![r].pc = "version"]
  /\ UNCHANGED <<now, p3sessions, p3nsock, p3on, p3out, p3gh, p3nev, p3others>>

\* useMultiFileAuthState, fetchLatestBaileysVersion or makeWASocket throws
P3CreateThrow(r) ==
  /\ p3req[r].pc \in {"authState", "version"}
  /\ p3req' = [p3req EXCEPT ![r].pc = "threw"]
  /\ UNCHANGED <<now, p3sessions, p3nsock, p3on, p3out, p3gh, p3nev, p3others>>

\* await fetchLatestBaileysVersion() resolves: makeWASocket,
\* sessions[sessionId] = { sock }, return; then the route handler, in the same job
P3VersionDone(r) ==
  /\ p3req[r].pc = "version"
  /\ p3nsock' = p3nsock + 1
  /\ p3sessions' = [p3sessions EXCEPT ![p3req[r].id] = p3nsock + 1]
  /\ P3Body(r, p3req[r], p3nsock + 1)
  /\ UNCHANGED <<now, p3nev, p3others>>

\* (update) => { if (update.qr) { qrData = update.qr; } }
P3OnUpdate(rq, u) == IF u.qr # None THEN [rq EXCEPT !.qrData = u.qr] ELSE rq

\* the first QR a listening request is given within 30 s of its arrival
P3SeenGh(g, rq, u) ==
  IF u.qr # None /\ g.first.kind = None /\ now <= g.arrived + README_QR_WAIT_MS
    THEN [g EXCEPT !.first = [kind |-> "qr", qr |-> u.qr, at |-> now]]
    ELSE g

\* the provider emits connection.update on sock c: every listener registered
\* with sock.ev.on runs (none is ever removed)
P3Emit(c, u) ==
  /\ c \in 1..p3nsock
  /\ p3nev < MaxP3Events
  /\ p3nev' = p3nev + 1
  /\ p3req' = [r \in P3Reqs |-> IF r \in p3on[c] THEN P3OnUpdate(p3req[r], u) ELSE p3req[r]]
  /\ p3gh' = [r \in P3Reqs |->
                IF r \in p3on[c] THEN P3SeenGh(p3gh[r], p3req[r], u) ELSE p3gh[r]]
  /\ UNCHANGED <<now, p3sessions, p3nsock, p3on, p3out, p3others>>

\* setTimeout's callback:
\*   if (qrData) res.json({ ok: true, qr: `data:image/png;base64,${qrData}`, ... })
\*   else res.json({ ok: false, message: "QR not available yet." })
P3TimerReply(rq) ==
  IF rq.qrData # None
    THEN P3Reply("qr", <<"data:image/png;base64,", rq.qrData>>)
    ELSE P3Reply("noqr", None)

P3TimerFire(r) ==
  /\ p3req[r].timer # NoTimer
  /\ now >= p3req[r].timer
  /\ p3out' = [p3out EXCEPT ![r] = Append(@, P3TimerReply(p3req[r]))]
  /\ p3req' = [p3req EXCEPT ![r].timer = NoTimer, ![r].pc = "done"]
  /\ UNCHANGED <<now, p3sessions, p3nsock, p3on, p3gh, p3nev, p3others>>

\* await s.sock.requestPairingCode(phone) resolves
P3PairDone(r, raw) ==
  /\ p3req[r].pc = "pairing"
  /\ p3req' = [p3req EXCEPT ![r].pc = "done"]
  /\ p3out' = [p3out EXCEPT ![r] = Append(@, P3Reply("code", Code8(raw)))]
  /\ UNCHANGED <<now, p3sessions, p3nsock, p3on, p3gh, p3nev, p3others>>

\* it rejects: catch (e) { return res.json({ ok: false, message: e.message }) }
P3PairThrow(r, msg) ==
  /\ p3req[r].pc = "pairing"
  /\ p3req' = [p3req EXCEPT ![r].pc = "done"]
  /\ p3out' = [p3out EXCEPT ![r] = Append(@, P3Reply("pairerr", msg))]
  /\ UNCHANGED <<now, p3sessions, p3nsock, p3on, p3gh, p3nev, p3others>>

\* the deadlines of the timers that have not run
P3Pending == {p3req[r].timer : r \in P3Reqs} \ {NoTimer}

\* time passes; a timer that is due runs before the clock moves on
P3Tick ==
  /\ now < MaxP3Ticks * P3TickMs
  /\ \A d \in P3Pending : d > now
  /\ now' = now + P3TickMs
  /\ UNCHANGED <<p3sessions, p3nsock, p3on, p3req, p3out, p3gh, p3nev, p3others>>

P3Next ==
  \/ \E r \in P3Reqs, q \in P3Queries : P3StartQR(r, q)
  \/ \E r \in P3Reqs, q \in P3Queries, ph \in P3Phones : P3StartPair(r, q, ph)
  \/ \E r \in P3Reqs : P3AuthStateDone(r)
  \/ \E r \in P3Reqs : P3CreateThrow(r)
  \/ \E r \in P3Reqs : P3VersionDone(r)
  \/ \E c \in P3Socks, u \in Updates : P3Emit(c, u)
  \/ \E r \in P3Reqs : P3TimerFire(r)
  \/ \E r \in P3Reqs, raw \in RawCodes : P3PairDone(r, raw)
  \/ \E r \in P3Reqs, msg \in ErrMessages : P3PairThrow(r, msg)
  \/ P3Tick

(* ------------------------------ server.js ------------------------------ *)

SvReply(type, val) == [type |-> type, val |-> val, at |-> now]

\* GET /api/qr after `await createSession(sessionId)`: the listener and the timer
SvQRBody(rq, c) ==
  [rq EXCEPT !.sock = c, !.pc = "waiting", !.responded = FALSE,
             !.timer = now + SV_QR_WAIT_MS]

\* if (sessions.get(sessionId)) return sessions.get(sessionId); else the first await
SvEnter(r, rq) ==
  IF svsessions[rq.id] # 0
    THEN /\ svreq' = [svreq EXCEPT ![r] = SvQRBody(rq, svsessions[rq.id])]
         /\ svon' = [svon EXCEPT ![svsessions[rq.id]] = @ \cup {r}]
    ELSE /\ svreq' = [svreq EXCEPT ![r] = [rq EXCEPT !.pc = "authState"]]
         /\ UNCHANGED svon

\* GET /api/qr/:sessionId; requests are numbered in their order of arrival
SvStartQR(r, id) ==
  /\ svreq[r].pc = "idle"
  /\ IF r = 1 THEN TRUE ELSE svreq[r - 1].pc # "idle"
  /\ SvEnter(r, [SvIdleReq EXCEPT !.id = id])
  /\ svgh' = [svgh EXCEPT ![r] =
                [SvIdleGh EXCEPT !.entry = svsessions[id],
                                 !.closedAtArrival = {c \in SvSocks : svsock[c].closed}]]
  /\ UNCHANGED <<now, svsessions, svnsock, svsock, svout, svnev, svothers>>

\* await useMultiFileAuthState(authDir) resolves
SvAuthStateDone(r) ==
  /\ svreq[r].pc = "authState"
  /\ svreq' = [svreq EXCEPT ![r].pc = "version"]
  /\ UNCHANGED <<now, svsessions, svnsock, svsock, svon, svout, svnev, svgh, svothers>>

\* useMultiFileAuthState, fetchLatestBaileysVersion or makeWASocket throws:
\* createSession rejects, and so does the route handler awaiting it
SvCreateThrow(r) ==
  /\ svreq[r].pc \in {"authState", "version"}
  /\ svreq' = [svreq EXCEPT ![r].pc = "threw"]
  /\ UNCHANGED <<now, svsessions, svnsock, svsock, svon, svout, svnev, svgh, svothers>>

\* await fetchLatestBaileysVersion() resolves: makeWASocket, the listeners,
\* sessions.set(sessionId, sock), return; then the route handler, in the same job
SvVersionDone(r) ==
  /\ svreq[r].pc = "version"
  /\ LET c == svnsock + 1
     IN /\ svnsock' = c
        /\ svsock' = [svsock EXCEPT ![c] = [id |-> svreq[r].id, closed |-> FALSE]]
        /\ svsessions' = [svsessions EXCEPT ![svreq[r].id] = c]
        /\ svreq' = [svreq EXCEPT ![r] = SvQRBody(@, c)]
        /\ svon' = [svon EXCEPT ![c] = @ \cup {r}]
        /\ svgh' = [svgh EXCEPT ![r].made = TRUE]
  /\ UNCHANGED <<now, svout, svnev, svothers>>

\* SvOnUpdate without the sessions.delete
SvOnUpdateKeep(m, id, u) == m

\* The listener of createSession(sessionId), on the Map m:
\*   if (connection === "close") { ...; sessions.delete(sessionId); }
SvOnUpdate(m, id, u) == IF u.connection = "close" THEN [m EXCEPT ![id] = 0] ELSE m

\* The request's handler on an update, up to its await or its end: the
\* request's locals, its reply (if any) and whether it calls sock.ev.off
SvHandler(rq, u) ==
  IF u.qr # None /\ ~rq.responded
    THEN [req |-> [rq EXCEPT !.responded = TRUE, !.pc = "encoding", !.arg = u.qr],
          reply |-> <<>>, off |-> FALSE]
  ELSE IF u.connection = "open" /\ ~rq.responded
    THEN [req |-> [rq EXCEPT !.responded = TRUE, !.pc = "done"],
          reply |-> <<SvReply("connected", None)>>, off |-> TRUE]
  ELSE [req |-> rq, reply |-> <<>>, off |-> FALSE]

\* The provider emits connection.update on sock c (a sock that has closed
\* emits nothing more): the listener of createSession, then the handlers
SvEmit(c, u) ==
  /\ c \in 1..svnsock
  /\ ~svsock[c].closed
  /\ svnev < MaxSvEvents
  /\ svnev' = svnev + 1
  /\ svsessions' = SvOnUpdate(svsessions, svsock[c].id, u)
  /\ svsock' = [svsock EXCEPT ![c].closed = (u.connection = "close")]
  /\ svreq' = [r \in SvReqs |-> IF r \in svon[c] THEN SvHandler(svreq[r], u).req ELSE svreq[r]]
  /\ svout' = [r \in SvReqs |->
                IF r \in svon[c] THEN svout[r] \o SvHandler(svreq[r], u).reply ELSE svout[r]]
  /\ svon' = [svon EXCEPT ![c] = {r \in @ : ~SvHandler(svreq[r], u).off}]
  /\ UNCHANGED <<now, svnsock, svgh, svothers>>

\* await QRCode.toDataURL(u.qr) resolves: res.json({ ok: true, qr: png }); finally off
SvEncodeDone(r) ==
  /\ svreq[r].pc = "encoding"
  /\ svreq' = [svreq EXCEPT ![r].pc = "done"]
  /\ svout' = [svout EXCEPT ![r] = Append(@, SvReply("qr", ToDataURL(svreq[r].arg)))]
  /\ svon' = [svon EXCEPT ![svreq[r].sock] = @ \ {r}]
  /\ UNCHANGED <<now, svsessions, svnsock, svsock, svnev, svgh, svothers>>

\* it rejects: res.status(500).json({ ok: false, error: "Failed to encode QR" }); finally off
SvEncodeThrow(r) ==
  /\ svreq[r].pc = "encoding"
  /\ svreq' = [svreq EXCEPT ![r].pc = "done"]
  /\ svout' = [svout EXCEPT ![r] = Append(@, SvReply("encodefail", None))]
  /\ svon' = [svon EXCEPT ![svreq[r].sock] = @ \ {r}]
  /\ UNCHANGED <<now, svsessions, svnsock, svsock, svnev, svgh, svothers>>

\* SvTimeout as in ban-md.js: the reply alone, no latch and no off
SvTimeoutNoLatch(rq) ==
  [req |-> [rq EXCEPT !.timer = NoTimer],
   reply |-> IF ~rq.responded THEN <<SvReply("timeout", None)>> ELSE <<>>,
   off |-> FALSE]

\* setTimeout's callback:
\*   if (!responded) { responded = true; res.status(504).json(...); sock.ev.off(...) }
SvTimeout(rq) ==
  IF ~rq.responded
    THEN [req |-> [rq EXCEPT !.responded = TRUE, !.timer = NoTimer, !.pc = "done"],
          reply |-> <<SvReply("timeout", None)>>, off |-> TRUE]
    ELSE [req |-> [rq EXCEPT !.timer = NoTimer], reply |-> <<>>, off |-> FALSE]

SvTimerFire(r) ==
  /\ svreq[r].timer # NoTimer
  /\ now >= svreq[r].timer
  /\ svreq' = [svreq EXCEPT ![r] = SvTimeout(@).req]
  /\ svout' = [svout EXCEPT ![r] = @ \o SvTimeout(svreq[r]).reply]
  /\ svon' = IF SvTimeout(svreq[r]).off
               THEN [svon EXCEPT ![svreq[r].sock] = @ \ {r}] ELSE svon
  /\ UNCHANGED <<now, svsessions, svnsock, svsock, svnev, svgh, svothers>>

\* the deadlines of the timers that have not run
SvPending == {svreq[r].timer : r \in SvReqs} \ {NoTimer}

\* time passes, by the timeout or up to the next deadline if that comes first;
\* a timer that is due runs before the clock moves on
SvTick ==
  /\ now < MaxSvTicks * SV_QR_WAIT_MS
  /\ \A d \in SvPending : d > now
  /\ now' = IF \E d \in SvPending : d < now + SV_QR_WAIT_MS
              THEN Earliest(SvPending) ELSE now + SV_QR_WAIT_MS
  /\ UNCHANGED <<svvars, svothers>>

SvNext ==
  \/ \E r \in SvReqs, id \in SvIds : SvStartQR(r, id)
  \/ \E r \in SvReqs : SvAuthStateDone(r)
  \/ \E r \in SvReqs : SvCreateThrow(r)
  \/ \E r \in SvReqs : SvVersionDone(r)
  \/ \E c \in SvSocks, u \in Updates : SvEmit(c, u)
  \/ \E r \in SvReqs : SvEncodeDone(r)
  \/ \E r \in SvReqs : SvEncodeThrow(r)
  \/ \E r \in SvReqs : SvTimerFire(r)
  \/ SvTick

SpecSv == Init /\ [][SvNext]_vars

(* ------------------------------ part_000 ------------------------------- *)

\* createSession, from makeWASocket to its return: the sock, S and the
\* listeners.  restored: sock.user as the stored credentials give it.
P0Create(restored) ==
  /\ p0S.sock = 0
  /\ p0S' = [sock |-> 1, lastQR |-> None, lastQRAt |-> 0, sentSessionMsg |-> FALSE]
  /\ p0user' = restored
  /\ UNCHANGED <<now, p0sending, p0sends, p0nev, p0others>>

\* if (u.qr) { S.lastQR = u.qr; S.lastQRAt = Date.now(); }
P0OnQR(s, u) ==
  IF u.qr # None THEN [s EXCEPT !.lastQR = u.qr, !.lastQRAt = now] ELSE s

\* if (u.connection === "open" && !S.sentSessionMsg && sock?.user?.id)
P0WillSend(s, u, user) == u.connection = "open" /\ ~s.sentSessionMsg /\ user # None

\* The provider emits connection.update: the listener runs up to its await
\* of sock.sendMessage, or to its end.  login: the provider has set sock.user.
P0Emit(u, login) ==
  /\ p0S.sock # 0
  /\ p0nev < MaxP0Events
  /\ p0nev' = p0nev + 1
  /\ login => p0user = None /\ u.qr = None
  /\ LET user == IF login THEN CHOOSE x \in Users : TRUE ELSE p0user
     IN /\ u.connection = "open" => user # None
        /\ p0user' = user
        /\ p0S' = P0OnQR(p0S, u)
        /\ p0sending' = IF P0WillSend(p0S, u, user) THEN p0sending + 1 ELSE p0sending
        /\ p0sends' = IF P0WillSend(p0S, u, user) THEN p0sends + 1 ELSE p0sends
  /\ UNCHANGED <<now, p0others>>

\* await sock.sendMessage(...) settles.  Resolved, or rejected and caught by
\* catch (err) { console.error(...) }: either way S.sentSessionMsg = true next.
P0SendSettle ==
  /\ p0sending > 0
  /\ p0sending' = p0sending - 1
  /\ p0S' = [p0S EXCEPT !.sentSessionMsg = TRUE]
  /\ UNCHANGED <<now, p0user, p0sends, p0nev, p0others>>

\* time passes (Date.now() of S.lastQRAt)
P0Tick ==
  /\ now < MaxP0Ticks * TickMs
  /\ now' = now + TickMs
  /\ UNCHANGED <<p0vars, p0others>>

P0Next ==
  \/ \E u \in Users \cup {None} : P0Create(u)
  \/ \E u \in Updates, login \in BOOLEAN : P0Emit(u, login)
  \/ P0SendSettle
  \/ P0Tick

SpecP0 == Init /\ [][P0Next]_vars

(* ------------------------------ part_002 ------------------------------- *)

\* new Date(ms).getTime() of a record's expiresAt: a whole number of
\* milliseconds inside the range of Date, whose time value is the number
GetTime(ms) == ms

\* Expired taking the expiry instant itself as expired
ExpiredInclusive(rec) == now >= GetTime(rec.expiresAt)

\* Date.now() > new Date(rec.expiresAt).getTime()
Expired(rec) == now > GetTime(rec.expiresAt)

\* isValid(code): its return value
IsValid(code) ==
  IF store[code] = NoRec THEN FALSE
  ELSE IF Expired(store[code]) THEN FALSE
  ELSE TRUE

\* StoreAfter keeping the expired record
StoreAfterKeep(code) == store

\* isValid(code): the store it leaves (store.delete(code) of an expired record)
StoreAfter(code) ==
  IF store[code] # NoRec /\ Expired(store[code])
    THEN [store EXCEPT ![code] = NoRec]
    ELSE store

\* history of a validation of code
P2CheckGh(code) ==
  [p2gh EXCEPT !.met = p2gh.issue[code],
               !.expAt[code] = IF @ = NoTimer /\ store[code] # NoRec /\ ~IsValid(code)
                                 THEN now ELSE @]

\* POST /api/pair/new: newCode(), nanoid() returning code
P2New(code) ==
  /\ p2n < MaxP2Reqs
  /\ p2n' = p2n + 1
  /\ store' = [store EXCEPT ![code] = [createdAt |-> now, expiresAt |-> now + CODE_TTL_MS]]
  /\ p2gh' = [p2gh EXCEPT !.issue[code] = now, !.expAt[code] = NoTimer]
  /\ UNCHANGED <<now, p2last, p2ticks, p2others>>

\* GET /api/pair/validate?code=...   (q = None: no code in the query)
P2Validate(q) ==
  /\ p2n < MaxP2Reqs
  /\ p2n' = p2n + 1
  /\ IF q = None
       THEN /\ p2last' = [route |-> "validate", code |-> None, valid |-> FALSE,
                          status |-> 400, at |-> now, n |-> p2n + 1]
            /\ UNCHANGED <<store, p2gh>>
       ELSE /\ p2last' = [route |-> "validate", code |-> q, valid |-> IsValid(q),
                          status |-> 200, at |-> now, n |-> p2n + 1]
            /\ store' = StoreAfter(q)
            /\ p2gh' = P2CheckGh(q)
  /\ UNCHANGED <<now, p2ticks, p2others>>

\* GET /api/qr/:code.png   (streamed: QRCode.toFileStream writes the image;
\* 500 when it throws; it is not called for a code that is not valid)
P2QrPng(code, streamed) ==
  /\ p2n < MaxP2Reqs
  /\ p2n' = p2n + 1
  /\ p2last' = [route |-> "png", code |-> code, valid |-> IsValid(code),
                status |-> IF ~IsValid(code) THEN 404
                           ELSE IF streamed THEN 200 ELSE 500,
                at |-> now, n |-> p2n + 1]
  /\ streamed \/ IsValid(code)
  /\ store' = StoreAfter(code)
  /\ p2gh' = P2CheckGh(code)
  /\ UNCHANGED <<now, p2ticks, p2others>>

\* time passes: by a millisecond, or to just before or just after the time
\* a code issued now expires
P2Tick(d) ==
  /\ p2ticks < MaxP2Ticks
  /\ p2ticks' = p2ticks + 1
  /\ now' = now + d
  /\ UNCHANGED <<store, p2last, p2n, p2gh, p2others>>

P2Next ==
  \/ \E c \in Codes : P2New(c)
  \/ \E q \in P2Queries \cup {None} : P2Validate(q)
  \/ \E c \in P2Queries, streamed \in BOOLEAN : P2QrPng(c, streamed)
  \/ \E d \in {1, CODE_TTL_MS - 1, CODE_TTL_MS + 1} : P2Tick(d)

\* SpecP2: the requests of part_002 and its clock
SpecP2 == Init /\ [][P2Next]_vars

(* ------------------------- pair.js of README.md ------------------------ *)

\* startSock(), called by the module (line 78), up to its await
PjMain ==
  /\ pjstarting + pjfailed + pjnsock = 0
  /\ pjstarting' = 1
  /\ UNCHANGED <<sock, pjnsock, pjfailed, pjclosed, pjconn, pjnev, pjothers>>

\* await useMultiFileAuthState(...) resolves: sock = makeWASocket(...), the
\* listeners
PjStartDone ==
  /\ pjstarting > 0
  /\ pjnsock < MaxPjSocks
  /\ pjstarting' = pjstarting - 1
  /\ pjnsock' = pjnsock + 1
  /\ sock' = pjnsock + 1
  /\ UNCHANGED <<pjfailed, pjclosed, pjconn, pjnev, pjothers>>

\* await useMultiFileAuthState(...) rejects, or makeWASocket throws: the
\* promise of startSock() rejects; no caller awaits or catches it
PjStartThrow ==
  /\ pjstarting > 0
  /\ pjstarting' = pjstarting - 1
  /\ pjfailed' = pjfailed + 1
  /\ UNCHANGED <<sock, pjnsock, pjclosed, pjconn, pjnev, pjothers>>

\* const shouldReconnect = lastDisconnect?.error?.output?.statusCode !== DisconnectReason.loggedOut
ShouldReconnect(code) == code # "loggedOut"

\* The provider emits connection.update on sock c; a sock emits nothing
\* after its close.  code: the status code of lastDisconnect, for a close.
PjEmit(c, conn, code) ==
  /\ c \in 1..pjnsock
  /\ pjclosed[c] = "no"
  /\ pjnev < MaxPjEvents
  /\ pjnev' = pjnev + 1
  /\ conn # "close" => code = None
  /\ pjconn' = [pjconn EXCEPT ![c] = IF conn # None THEN conn ELSE @]
  /\ pjclosed' = IF conn = "close"
                   THEN [pjclosed EXCEPT ![c] = IF code = "loggedOut" THEN "loggedOut" ELSE "lost"]
                   ELSE pjclosed
  /\ pjstarting' = IF conn = "close" /\ ShouldReconnect(code)
                     THEN pjstarting + 1 ELSE pjstarting
  /\ UNCHANGED <<sock, pjnsock, pjfailed, pjothers>>

PjNext ==
  \/ PjMain
  \/ PjStartDone
  \/ PjStartThrow
  \/ \E c \in PjSocks, conn \in PjConns, code \in PjCodes : PjEmit(c, conn, code)

\* SpecPj: pair.js, its startSock calls and the events of its socks
SpecPj == Init /\ [][PjNext]_vars

Spec == Init /\ [][Next(SpecBounds)]_vars

SpecP3 == InitP3 /\ [][P3Next]_vars

SpecCode == InitCode /\ [][NextCode]_vars

SpecMe == Init /\ [][NextMe(WaitBounds)]_vars

SpecCreate == Init /\ [][NextCreate(CreateBounds)]_vars

SpecWait == Init /\ [][Next(WaitBounds)]_vars

SpecTTL == Init /\ [][Next(TtlBounds)]_vars

(* ============================== properties ============================= *)

\* the requests whose connection.update listener is still registered
Listening == UNION {once[c] : c \in Socks}

\* the phone holds a decimal digit
HasDigit(phone) == \E i \in 1..Len(phone) : phone[i] \in Digit

\* the socks createSession made for an id
SocksOf(id) == {c \in 1..nsock : sockId[c] = id}

(* C1: whatever the interleaving of overlapping createSession calls with the
   same id, makeWASocket is invoked at most once for the id and all callers
   get the same connection handle. *)
C1_OneConnectionPerId ==
  /\ \A id \in Ids : Cardinality(SocksOf(id)) <= 1
  /\ \A r1, r2 \in Reqs :
       (req[r1].sock # 0 /\ req[r2].sock # 0 /\ req[r1].id = req[r2].id)
         => req[r1].sock = req[r2].sock

(* C2: res.json is called at most once for a GET /api/qr request, whatever
   the order of the connection.update events and the timer. *)
C2_AtMostOneReply ==
  \A r \in Reqs : req[r].kind = "qr" => Len(out[r]) <= 1

(* C3: a waiting getQR whose sock emits a QR event before the timeout is
   answered with that QR (the handler takes the event and, once the image is
   encoded, replies with it), whatever other events came earlier. *)
C3_QRDuringWaitAnswered ==
  \A r \in Reqs :
    gh[r].first.kind = "qr" =>
      /\ req[r].responded
      /\ \/ req[r].pc = "encEvent" /\ req[r].arg = gh[r].first.qr
         \/ req[r].pc = "threw"
         \/ /\ out[r] # <<>>
            /\ out[r][1].type = "qr"
            /\ out[r][1].val = ToDataURL(gh[r].first.qr)

(* C4: once a getQR call has produced its response, its connection.update
   listener is no longer registered, or is inert (responded is set). *)
C4_ListenerGoneAfterReply ==
  \A r \in Reqs : (out[r] # <<>> /\ r \in Listening) => req[r].responded

\* the reply of a request short-circuited for a session whose identity is set
ShortCircuited(r) ==
  /\ out[r] = <<[type |-> "already", val |-> gh[r].ident, sessionId |-> req[r].id,
                 at |-> gh[r].hAt]>>
  /\ gh[r].did = {}
  /\ req[r].pc = "done"
  /\ req[r].sock = gh[r].entry
  /\ req[r].timer = NoTimer
  /\ r \notin Listening

(* C5 as claimed: a request (GET /api/qr, GET /api/pair) for a session whose
   identity is set on arrival gets the already-logged-in result with the user,
   calls no requestPairingCode, registers no listener, starts no timeout and
   creates no connection. *)
C5_AnyPhoneShortCircuits ==
  \A r \in Reqs : (req[r].kind # None /\ gh[r].ident # None) => ShortCircuited(r)

(* C5 as amended: the same, for GET /api/qr and for GET /api/pair with a phone
   that holds at least one digit. *)
C5_LoggedInShortCircuits ==
  \A r \in Reqs :
    (/\ req[r].kind # None
     /\ gh[r].ident # None
     /\ req[r].kind = "pair" => HasDigit(req[r].phone))
      => ShortCircuited(r)

C5_Witness ==
  \E r \in Reqs :
    /\ req[r].kind = "pair" /\ HasDigit(req[r].phone)
    /\ gh[r].ident # None
    /\ out[r] # <<>>

(* C6: an unauthenticated getQR answers from the cache exactly when the last
   QR event of its session is less than 60000 ms old at the call; it then
   encodes and returns that payload, with no listener and no timer; otherwise
   it waits, and a QR it returns comes from an event emitted after the call. *)
C6_CacheExactlyWhenFresh ==
  \A r \in Reqs :
    (req[r].kind = "qr" /\ req[r].sock # 0 /\ gh[r].hUser = None) =>
      LET recorded == gh[r].hq.kind = "qr"
          fresh == recorded /\ gh[r].hAt - gh[r].hq.at < QR_TTL_MS
          cached == "listener" \notin gh[r].did
      IN /\ fresh <=> cached
         /\ cached =>
              /\ "timer" \notin gh[r].did
              /\ req[r].timer = NoTimer
              /\ r \notin Listening
              /\ \/ req[r].pc = "encCached" /\ req[r].arg = gh[r].hq.qr
                 \/ req[r].pc = "threw"
                 \/ out[r] = <<[type |-> "qr", val |-> ToDataURL(gh[r].hq.qr),
                                sessionId |-> req[r].id, at |-> out[r][1].at]>>
         /\ ~cached =>
              \A i \in 1..Len(out[r]) :
                out[r][i].type = "qr" =>
                  /\ gq[req[r].sock].kind = "qr"
                  /\ gq[req[r].sock].at >= gh[r].hAt

C6_Witness ==
  \E r \in Reqs :
    /\ req[r].kind = "qr" /\ gh[r].hUser = None
    /\ "listener" \notin gh[r].did
    /\ gh[r].hAt - gh[r].hq.at = TtlTickMs
    /\ out[r] # <<>>
    /\ out[r][1].type = "qr"

(* C7: a waiting getQR that sees neither a QR nor an open event before its
   timer runs is answered with the timeout error when the 10 s bound elapses:
   not earlier, and the clock does not pass the bound with the timer pending;
   other connection.update events during the wait change nothing. *)
C7_TimeoutAtBound ==
  \A r \in Reqs :
    "timer" \in gh[r].did =>
      /\ gh[r].deadline = gh[r].hAt + QR_WAIT_MS
      /\ req[r].timer # NoTimer => now <= gh[r].deadline
      /\ (gh[r].fired /\ gh[r].first.kind = None) =>
           /\ out[r] # <<>>
           /\ out[r][1] = [type |-> "timeout", val |-> None, sessionId |-> req[r].id,
                           at |-> gh[r].deadline]
      /\ \A i \in 1..Len(out[r]) :
           out[r][i].type = "timeout" => out[r][i].at = gh[r].deadline

C7_Witness ==
  \E r \in Reqs :
    /\ gh[r].fired /\ gh[r].first.kind = None /\ gh[r].other
    /\ out[r] # <<>>
    /\ out[r][1].type = "timeout"

\* nothing of the request is left to run
Finished(r) ==
  /\ req[r].pc \in {"done", "threw"}
  /\ req[r].timer = NoTimer
  /\ r \notin Listening

(* C8: every GET /api/qr request gets a response: none has run to its end
   without one, also when session creation or the QR encoding failed. *)
C8_EveryQRRequestAnswered ==
  \A r \in Reqs : (req[r].kind = "qr" /\ Finished(r)) => out[r] # <<>>

(* C9: a waiting getQR whose sock reports connection = open before any QR
   event is answered with the already-authenticated result at that moment,
   whatever other events came earlier. *)
C9_OpenDuringWaitAnswered ==
  \A r \in Reqs :
    gh[r].first.kind = "open" =>
      out[r] = <<[type |-> "already", val |-> sockUser[req[r].sock],
                  sessionId |-> req[r].id, at |-> gh[r].first.at]>>

(* C10: GET /api/pair with a phone that has no digit answers with the phone
   error in the step it arrives, leaving the registry, the session objects,
   the socks and the listeners as they were, and never does anything more. *)
C10_BadPhoneRejected ==
  /\ [][\A r \in Reqs :
          (req[r].pc = "idle" /\ req'[r].kind = "pair" /\ ~HasDigit(req'[r].phone)) =>
             /\ sessions' = sessions /\ nsock' = nsock /\ sobj' = sobj
             /\ sockId' = sockId /\ once' = once
             /\ out'[r] = <<[type |-> "badphone", val |-> None, sessionId |-> None,
                             at |-> now]>>]_vars
  /\ [](\A r \in Reqs :
          (req[r].kind = "pair" /\ ~HasDigit(req[r].phone)) =>
             /\ gh[r].did = {}
             /\ req[r].sock = 0
             /\ req[r].pc = "done"
             /\ Len(out[r]) = 1)

C10_Witness ==
  \E r \in Reqs :
    /\ req[r].kind = "pair" /\ ~HasDigit(req[r].phone)
    /\ out[r] # <<>>
    /\ \E id \in Ids : sessions[id] # 0

\* the characters of s are decimal digits, n of them
IsDigits(s, n) == Len(s) = n /\ \A i \in 1..Len(s) : s[i] \in Digit

(* C12: every successful pairing response ({ code, sessionId }) of GET
   /api/pair carries a code of 8 decimal digits, whatever requestPairingCode
   resolved to. *)
C12_CodeIsEightDigits ==
  \A r \in Reqs : \A i \in 1..Len(out[r]) :
    out[r][i].type = "code" => IsDigits(out[r][i].val, 8)

(* C13: when requestPairingCode rejects, the request gets one response, the
   error with the provider's message (the fixed text if the error has none);
   the request has made one pairing call and makes no other; and the step
   leaves the registry, the session objects, the socks and the listeners as
   they were. *)
C13_PairFailureReported ==
  /\ [][\A r \in Reqs :
          (req[r].pc = "pairing" /\ req'[r].pc # "pairing" /\ gh'[r].thrown # None) =>
             /\ sessions' = sessions /\ nsock' = nsock /\ sobj' = sobj
             /\ sockId' = sockId /\ sockUser' = sockUser /\ once' = once]_vars
  /\ [][\A r \in Reqs :
          (req[r].pc # "pairing" /\ req'[r].pc = "pairing") => "pairCall" \notin gh[r].did]_vars
  /\ [](\A r \in Reqs :
          gh[r].thrown # None =>
             /\ req[r].pc = "done"
             /\ "pairCall" \in gh[r].did
             /\ out[r] = <<[type |-> "pairerr",
                            val |-> IF gh[r].thrown # "" THEN gh[r].thrown
                                    ELSE "Failed to generate code",
                            sessionId |-> req[r].id, at |-> out[r][1].at]>>)

C13_Witness ==
  \E r \in Reqs :
    /\ gh[r].thrown \notin {None, ""}
    /\ out[r] # <<>>
    /\ out[r][1].type = "pairerr"
    /\ sobj[req[r].sock].connection # "init"

\* the request called createSession (a pair request with a bad phone does not)
CalledCreate(r) ==
  req[r].kind = "qr" \/ (req[r].kind = "pair" /\ HasDigit(req[r].phone))

(* C15: a createSession that fails stores nothing: the step in which it throws
   leaves the registry, the socks and the listeners as they were, the registry
   changes only in the step of a call that gets its sock, the failed call
   holds no sock, and a createSession that finds no entry for its id (also
   after an earlier call for the id failed) goes on to create one. *)
C15_FailedCreateStoresNothing ==
  /\ [][\A r \in Reqs :
          (req[r].pc \in {"authState", "version"} /\ req'[r].pc = "threw") =>
             /\ sessions' = sessions /\ nsock' = nsock /\ sobj' = sobj
             /\ sockId' = sockId /\ sockUser' = sockUser /\ once' = once]_vars
  /\ [][\A id \in Ids :
          sessions'[id] # sessions[id] =>
            \E r \in Reqs :
              /\ req[r].pc = "version" /\ req[r].id = id
              /\ req'[r].pc # "threw"
              /\ req'[r].sock = sessions'[id]]_vars
  /\ [](\A r \in Reqs :
          (CalledCreate(r) /\ gh[r].entry = 0) =>
             \/ req[r].pc \in {"authState", "version"} /\ req[r].sock = 0
             \/ req[r].pc = "threw" /\ req[r].sock = 0
             \/ "makeSocket" \in gh[r].did)

\* a createSession failed, and a later one for the same id made the session
C15_Witness ==
  \E r1, r2 \in Reqs :
    /\ req[r1].pc = "threw" /\ req[r1].sock = 0
    /\ req[r2].id = req[r1].id
    /\ gh[r2].entry = 0
    /\ "makeSocket" \in gh[r2].did
    /\ sessions[req[r1].id] = req[r2].sock

(* C14: GET /api/me answers Unknown session exactly when the registry has no
   entry for the id, and otherwise with the user and the connection of the
   session object stored for the id; it leaves the registry, the session
   objects, the socks, the listeners and the requests as they were. *)
C14_MeReadsOnly ==
  [][me' # me =>
       /\ UNCHANGED banvars
       /\ me'.type = "unknown" <=> sessions[me'.id] = 0
       /\ me'.type = "me" <=> sessions[me'.id] # 0
       /\ sessions[me'.id] = 0 => me'.user = None /\ me'.connection = None
       /\ sessions[me'.id] # 0 =>
            /\ me'.user = sobj[sessions[me'.id]].user
            /\ me'.connection = sobj[sessions[me'.id]].connection]_vars

C14_Witness ==
  /\ me.type = "me"
  /\ me.user # None
  /\ me.connection = "close"
  /\ sobj[sessions[me.id]].connection = "close"

(* C16: a createSession(id) that starts after an earlier createSession(id) has
   returned gets the handle that call got, makes no sock of its own and
   leaves the registry entry as it found it. *)
C16_LaterCallReusesHandle ==
  \A r \in {x \in Reqs : CalledCreate(x)} : \A q \in gh[r].before :
    /\ req[r].sock = req[q].sock
    /\ "makeSocket" \notin gh[r].did
    /\ \E c \in SocksOf(req[r].id) : sessions[req[r].id] = c

\* everything that belongs to the sessions of id b is as it was
SameFor(b) ==
  /\ sessions'[b] = sessions[b]
  /\ \A d \in SocksOf(b) :
       /\ sobj'[d] = sobj[d]
       /\ sockUser'[d] = sockUser[d]
       /\ once'[d] = once[d]
  /\ \A r \in Reqs : req[r].id = b => (req'[r] = req[r] /\ out'[r] = out[r])

(* C17: for distinct ids A and B, a connection.update of a sock of A changes
   no session object of B, resolves no request waiting on B and removes none
   of B's listeners; and the step in which createSession makes A's sock leaves
   B's registry entry, session objects and requests as they were. *)
C17_OtherIdsUntouched ==
  /\ [][nev' # nev => \A b \in Ids \ {sockId[glast']} : SameFor(b)]_vars
  /\ [][nsock' # nsock => \A b \in Ids \ {sockId'[nsock']} : SameFor(b)]_vars

\* a sock of one id has emitted while a request of the other id waits on its own
C17_Witness ==
  /\ glast # 0
  /\ \E r \in Reqs :
       /\ req[r].id \notin {None, sockId[glast]}
       /\ req[r].sock # 0
       /\ r \in once[req[r].sock]
       /\ req[r].pc = "waiting"

(* C18: after any sequence of connection.update events of a sock, the lastQR
   of its session object is the payload of the QR event it emitted last (null
   if it emitted none), lastQRAt is that event's time, and connection is the
   connection value it emitted last ("init" if it emitted none). *)
C18_FieldsFollowEmission ==
  \A c \in 1..nsock :
    /\ sobj[c].lastQR = (IF gq[c].kind = "qr" THEN gq[c].qr ELSE None)
    /\ sobj[c].lastQRAt = (IF gq[c].kind = "qr" THEN gq[c].at ELSE 0)
    /\ sobj[c].connection = (IF gconn[c] # None THEN gconn[c] ELSE "init")

\* the sock emitted a QR, then another QR, and a connection value
C18_Witness ==
  \E c \in 1..nsock :
    /\ nev >= 3
    /\ gq[c].kind = "qr"
    /\ gq[c].at > 0
    /\ sobj[c].lastQR = gq[c].qr
    /\ gconn[c] = "close"

(* C20: once createSession has stored an entry for an id, the registry has an
   entry for the id in every later state, also after its sock reports close;
   the entry only changes when an overlapping createSession stores its own
   sock, and every request that arrives while the entry is there is served by
   the sock of the entry it found. *)
C20_EntryStays ==
  /\ [][\A id \in Ids :
          sessions[id] # 0 =>
            /\ sessions'[id] # 0
            /\ sessions'[id] # sessions[id] =>
                 \E r \in Reqs : req[r].pc = "version" /\ req[r].id = id]_vars
  /\ [](\A r \in Reqs :
          (CalledCreate(r) /\ gh[r].entry # 0) =>
             /\ req[r].sock = gh[r].entry
             /\ "makeSocket" \notin gh[r].did)

\* a request served by the sock of a session whose connection had closed
C20_Witness ==
  \E r \in Reqs :
    /\ CalledCreate(r)
    /\ gh[r].entry # 0
    /\ gh[r].hConn = "close"
    /\ req[r].sock = sessions[req[r].id]

\* the decimal digits of a string, in their order
RECURSIVE DigitsOf(_)
DigitsOf(str) ==
  IF str = <<>> THEN <<>>
  ELSE IF Head(str) \in Digit THEN <<Head(str)>> \o DigitsOf(Tail(str))
  ELSE DigitsOf(Tail(str))

(* C11: the code /pair of part_003 makes of a raw code has exactly 8
   characters, each a decimal digit: the digits of the raw code in their
   order, then '0' up to 8 characters, and only the first 8 of them when there
   are more. *)
C11_CodeIsNormalized ==
  code8 # <<>> =>
    LET d == DigitsOf(rawIn)
    IN /\ Len(code8) = 8
       /\ \A i \in 1..8 : code8[i] \in Digit
       /\ \A i \in 1..8 : code8[i] = (IF i <= Len(d) THEN d[i] ELSE "0")

\* a raw code with other characters and with fewer than 8 digits, normalized
C11_Witness ==
  /\ rawIn = <<"A", "1", "2", "A", "1">>
  /\ code8 = <<"1", "2", "1", "0", "0", "0", "0", "0">>

(* C19: /qr of part_003 waits up to 30 s for a QR: a request that is given a
   QR event while it waits answers with that QR, and the 'QR not available'
   answer is given no earlier than 30 s after the request. *)
C19_QRWaitIsThirtySeconds ==
  \A r \in P3Reqs : \A i \in 1..Len(p3out[r]) :
    /\ p3out[r][i].type = "noqr" => p3out[r][i].at >= p3gh[r].arrived + README_QR_WAIT_MS
    /\ p3gh[r].first.kind = "qr" => p3out[r][i].type = "qr"

(* C21: in server.js a close event of a sock removes the registry entry of
   its session id, and a createSession that arrives later never returns a
   sock that had closed: it finds no entry and makes a new sock. *)
C21_CloseEvictsEntry ==
  /\ [][\A c \in SvSocks :
          (~svsock[c].closed /\ svsock'[c].closed) => svsessions'[svsock[c].id] = 0]_vars
  /\ [](\A r \in SvReqs :
          /\ svreq[r].sock \notin svgh[r].closedAtArrival
          /\ (svreq[r].sock # 0 /\ svgh[r].entry = 0) => svgh[r].made)

\* a createSession after the close of the id's sock has made a new sock
C21_Witness ==
  \E r \in SvReqs :
    /\ svgh[r].made
    /\ \E c \in svgh[r].closedAtArrival : svsock[c].id = svreq[r].id
    /\ svsessions[svreq[r].id] = svreq[r].sock

\* the requests of server.js whose connection.update handler is registered
SvListening == UNION {svon[c] : c \in SvSocks}

(* C22: in server.js a GET /api/qr request whose createSession succeeded gets
   exactly one response, whatever the order of the events and the timer: never
   two, one once its timer has run and no encoding is pending, and from the
   step that produces the response on its handler is not registered. *)
C22_OneResponseListenerRemoved ==
  \A r \in SvReqs :
    /\ Len(svout[r]) <= 1
    /\ svout[r] # <<>> => (r \notin SvListening /\ svreq[r].responded)
    /\ (svreq[r].sock # 0 /\ svreq[r].timer = NoTimer /\ svreq[r].pc # "encoding") =>
         Len(svout[r]) = 1
    /\ (svreq[r].sock # 0 /\ svout[r] = <<>>) =>
         (svreq[r].timer # NoTimer \/ svreq[r].pc = "encoding")

\* a request answered on an open event, whose timer has run since
C22_Witness ==
  \E r \in SvReqs :
    /\ svout[r] # <<>>
    /\ svout[r][1].type = "connected"
    /\ svreq[r].timer = NoTimer
    /\ now > svout[r][1].at
    /\ r \notin SvListening

(* C23: in server.js a close event of a sock removes the registry entry of its
   id only if the entry holds that sock: an entry that holds another sock,
   one that has not closed, is left as it is. *)
C23_CloseOnlyEvictsOwnEntry ==
  [][\A c \in SvSocks :
       (/\ ~svsock[c].closed /\ svsock'[c].closed
        /\ svsessions[svsock[c].id] \notin {0, c}
        /\ ~svsock[svsessions[svsock[c].id]].closed)
         => svsessions'[svsock[c].id] = svsessions[svsock[c].id]]_vars

(* C24: a GET /api/qr with the id omitted or "new" works on a session it
   creates, under a generated id that no session in the registry has: it
   never finds an entry under the id it drew. *)
C24_GeneratedIdIsFresh ==
  \A r \in Reqs :
    (req[r].kind = "qr" /\ req[r].wanted = None) =>
      /\ gh[r].entry = 0
      /\ req[r].sock # 0 => "makeSocket" \in gh[r].did

(* C25: part_000 sends the session-id message at most once per session:
   sock.sendMessage is called at most once, whatever connection.update events
   come, also a second connection = open while the first send is pending. *)
C25_SessionMessageSentOnce == p0sends <= 1

(* C26: several GET /api/qr requests waiting on one session at once are each
   resolved by the QR (or open) event that is the first event of the sock
   since they registered: every one of them has responded set and gets one
   reply of its own (the image of that QR once it is encoded, or the
   already-logged-in reply), none is left out because another was served. *)
C26_EveryWaiterResolved ==
  \A r \in Reqs :
    (req[r].kind = "qr" /\ gh[r].first.kind # None /\ ~gh[r].other) =>
      /\ req[r].responded
      /\ Len(out[r]) <= 1
      /\ gh[r].first.kind = "qr" =>
            \/ req[r].pc = "encEvent" /\ req[r].arg = gh[r].first.qr /\ out[r] = <<>>
            \/ req[r].pc = "threw" /\ out[r] = <<>>
            \/ /\ req[r].pc = "done"
               /\ out[r] = <<[type |-> "qr", val |-> ToDataURL(gh[r].first.qr),
                              sessionId |-> req[r].id, at |-> out[r][1].at]>>
      /\ gh[r].first.kind = "open" =>
            /\ req[r].pc = "done"
            /\ Len(out[r]) = 1
            /\ out[r][1].type = "already"
            /\ out[r][1].at = gh[r].first.at

\* two requests waited on one sock, one event resolved both and both have
\* their reply
C26_Witness ==
  \E r1, r2 \in Reqs :
    /\ r1 # r2
    /\ req[r1].kind = "qr" /\ req[r2].kind = "qr"
    /\ req[r1].sock # 0 /\ req[r1].sock = req[r2].sock
    /\ gh[r1].first.kind # None /\ gh[r1].first = gh[r2].first
    /\ ~gh[r1].other /\ ~gh[r2].other
    /\ Len(out[r1]) = 1 /\ Len(out[r2]) = 1
    /\ out[r1][1].type = out[r2][1].type
    /\ out[r1][1].type \in {"qr", "already"}

\* the last request validated a code
P2Checked == p2last.route \in {"validate", "png"} /\ p2last.code # None

(* C27: isValid(code) of part_002 is true exactly when newCode issued the
   code and the time is not later than its (last) issue time plus 5 minutes:
   still true at the expiry instant, false a millisecond later, and false
   for a code never issued. *)
C27_ValidUntilExpiry ==
  P2Checked =>
    (p2last.valid <=> (p2gh.met # NoTimer /\ p2last.at <= p2gh.met + CODE_TTL_MS))

\* a code validated at its expiry instant, and found valid
C27_Witness ==
  /\ P2Checked
  /\ p2last.code \in Codes
  /\ p2gh.met # NoTimer
  /\ p2last.at = p2gh.met + CODE_TTL_MS
  /\ p2last.valid

(* C28: once isValid has found an issued code expired, the code has no
   record in the store and every later validation of it answers invalid,
   until newCode issues the same string again; and a validation of a code
   leaves the record of every other code as it was. *)
C28_ExpiredCodeIsRemoved ==
  /\ [](\A c \in P2Queries : p2gh.expAt[c] # NoTimer => store[c] = NoRec)
  /\ [][(p2last'.n # p2last.n /\ p2last'.code # None) =>
         /\ p2gh.expAt[p2last'.code] # NoTimer => ~p2last'.valid
         /\ \A d \in P2Queries \ {p2last'.code} : store'[d] = store[d]]_vars

\* a code found expired is validated again later, while another code has
\* its record
C28_Witness ==
  \E c \in Codes :
    /\ p2gh.expAt[c] # NoTimer
    /\ P2Checked
    /\ p2last.code = c
    /\ p2last.at > p2gh.expAt[c]
    /\ ~p2last.valid
    /\ \E d \in Codes \ {c} : store[d] # NoRec

\* the socks of pair.js that closed for a reason other than loggedOut
PjLost == {c \in 1..pjnsock : pjclosed[c] = "lost"}

(* C29: in pair.js every close for a reason other than loggedOut invokes
   startSock again and, once no startSock call is pending, the global sock is
   a connection made after the one that closed; a close with loggedOut starts
   nothing (startSock has been invoked once by the module and once for each
   close that was not a loggedOut). *)
C29_ReconnectsUnlessLoggedOut ==
  /\ pjstarting + pjfailed + pjnsock > 0 =>
       pjstarting + pjfailed + pjnsock = 1 + Cardinality(PjLost)
  /\ \A c \in PjLost : pjstarting > 0 \/ sock > c

====
